---- MODULE Spec2Model ----
(***************************************************************************)
(* Model of absint.py: interval arithmetic on floating-point endpoints,    *)
(* Box2D geometry, and the best-first branch-and-bound search              *)
(* probability_nonnegative.                                                *)
(*                                                                         *)
(* Floating-point numbers are modelled by a scaled-down binary format with *)
(* the structure of IEEE-754 doubles: a float is an integer count of the   *)
(* smallest positive subnormal, it carries Precision significant bits,     *)
(* every primitive operation rounds to nearest, ties to even, and results  *)
(* below the normal range lose precision (gradual underflow).  The         *)
(* exponent range is not bounded above: the operands of the model are      *)
(* small, so no operation overflows (nor would it in doubles).             *)
(***************************************************************************)
EXTENDS Integers, Sequences, FiniteSets, TLC

\* float_info.mant_dig, scaled down (53 for doubles).
Precision == 3
\* 1.0 is 2^UnitExp times the smallest positive subnormal (1074 for doubles).
UnitExp == 6
\* Largest iteration budget explored.
MaxIter == 6

Pow2(k) == 2 ^ k

\* The element of a one-element set.  Operators below bind their arguments
\* to values with it, x \in {argument}, before they use them more than once.
The(S) == CHOOSE r \in S : TRUE

\* The float 1.0, in units of the smallest subnormal.
One == Pow2(UnitExp)

Abs(x) == IF x < 0 THEN -x ELSE x
Min2(a, b) == IF a <= b THEN a ELSE b
Max2(a, b) == IF a >= b THEN a ELSE b
SetMin(S) == CHOOSE x \in S : \A y \in S : x <= y
SetMax(S) == CHOOSE x \in S : \A y \in S : x >= y

\* Spacing of the floats around the non-negative rational num/den.
RECURSIVE Ulp(_, _, _)
Ulp(num, den, s) ==
    IF num < Pow2(Precision) * s * den THEN s ELSE Ulp(num, den, 2 * s)

\* Magnitude of num/den (num >= 0, den > 0) rounded to nearest, ties to even.
RoundMag(num, den) ==
    The({LET m == num \div (den * s)
             rem == num - m * den * s
             up == \/ 2 * rem > den * s
                   \/ 2 * rem = den * s /\ m % 2 = 1
         IN  (IF up THEN m + 1 ELSE m) * s : s \in {Ulp(num, den, 1)}})

\* The float nearest to the rational num/den (den > 0).
Round(num, den) ==
    IF num < 0 THEN -RoundMag(-num, den) ELSE RoundMag(num, den)

\* The primitive float operations the source uses.
FAdd(a, b) == Round(a + b, 1)
FSub(a, b) == Round(a - b, 1)
FMul(a, b) == Round(a * b, One)
FHalf(a) == Round(a, 2)
\* x * float_info.epsilon, epsilon = 2^(1 - Precision).
FTimesEpsilon(a) == Round(2 * a, Pow2(Precision))

-----------------------------------------------------------------------------
(* class Interval *)

AssertionError == [error |-> "AssertionError"]

Interval(min, max) ==
    The({IF lo <= hi THEN [min |-> lo, max |-> hi] ELSE AssertionError :
            lo \in {min}, hi \in {max}})

IsInterval(i) == i # AssertionError /\ i.min <= i.max

singleton(x) == Interval(x, x)

wrap(i, j) ==
    The({Interval(Min2(a.min, b.min), Max2(a.max, b.max)) : a \in {i}, b \in {j}})

account_for_rounding_errors(self) ==
    The({Interval(FSub(s.min, FTimesEpsilon(Abs(s.min))),
                  FAdd(s.max, FTimesEpsilon(Abs(s.max)))) : s \in {self}})

Interval_add(self, other) ==
    The({account_for_rounding_errors(
            Interval(FAdd(s.min, o.min), FAdd(s.max, o.max))) :
                s \in {self}, o \in {other}})

Interval_sub(self, other) ==
    The({account_for_rounding_errors(
            Interval(FSub(s.min, o.max), FSub(s.max, o.min))) :
                s \in {self}, o \in {other}})

Interval_mul(self, other) ==
    The({account_for_rounding_errors(
            Interval(SetMin(possibilities), SetMax(possibilities))) :
                possibilities \in
                    {{FMul(a, b) : a \in {s.min, s.max}, b \in {o.min, o.max}} :
                        s \in {self}, o \in {other}}})

can_be_nonnegative(self) == self.max >= 0

can_be_negative(self) == self.min < 0

length(self) ==
    The({account_for_rounding_errors(singleton(FSub(s.max, s.min))) : s \in {self}})

round(self) == The({FHalf(FAdd(s.min, s.max)) : s \in {self}})

\* A plausible slip: the first half is not cut at the pivot.
Interval_split_uncut(self) ==
    The({<<Interval(s.min, s.max), Interval(pivot, s.max)>> :
            pivot \in {FHalf(FAdd(s.min, s.max)) : s \in {self}}, s \in {self}})

Interval_split(self) ==
    The({<<Interval(s.min, pivot), Interval(pivot, s.max)>> :
            pivot \in {FHalf(FAdd(s.min, s.max)) : s \in {self}}, s \in {self}})

-----------------------------------------------------------------------------
(* class Box2D *)

Box2D(x, y) == [x |-> x, y |-> y]

area(self) == Interval_mul(length(self.x), length(self.y))

Box2D_split(self) ==
    The({<<Box2D(xs[1], ys[1]), Box2D(xs[1], ys[2]),
           Box2D(xs[2], ys[1]), Box2D(xs[2], ys[2])>> :
            xs \in {Interval_split(self.x)}, ys \in {Interval_split(self.y)}})

(* class PrioritizedItem: ordered by priority alone (item has compare=False) *)

PrioritizedItem(priority, item) == [priority |-> priority, item |-> item]

\* A plausible slip: the sign is forgotten, so the smallest box comes first.
PriorityUnnegated(b) == round(area(b))

\* The key under which the search enqueues a box: -box.area().round().
Priority(b) == -round(area(b))

-----------------------------------------------------------------------------
(* queue.PriorityQueue: a binary heap kept in a list (heapq), 1-based here *)

RECURSIVE SiftDown(_, _, _, _)
SiftDown(heap, startpos, pos, newitem) ==
    The({IF p > startpos /\ n.priority < h[p \div 2].priority
         THEN SiftDown([h EXCEPT ![p] = h[p \div 2]], startpos, p \div 2, n)
         ELSE [h EXCEPT ![p] = n] : h \in {heap}, p \in {pos}, n \in {newitem}})

RECURSIVE SiftUpWalk(_, _)
SiftUpWalk(heap, pos) ==
    The({LET childpos == 2 * p
             rightpos == childpos + 1
             c == IF rightpos <= Len(h)
                     /\ ~(h[childpos].priority < h[rightpos].priority)
                  THEN rightpos ELSE childpos
         IN  IF childpos <= Len(h)
             THEN SiftUpWalk([h EXCEPT ![p] = h[c]], c)
             ELSE <<h, p>> : h \in {heap}, p \in {pos}})

SiftUp(heap, pos) ==
    The({SiftDown(w[1], pos, w[2], h[pos]) :
            w \in {SiftUpWalk(h, pos) : h \in {heap}}, h \in {heap}})

put(heap, item) ==
    The({SiftDown(Append(h, n), 1, Len(h) + 1, n) : h \in {heap}, n \in {item}})

\* A plausible slip: the smallest item is read but left on the heap.
PeekOnly(heap) == [item |-> heap[1], heap |-> heap]

\* Result of worklist.get(): the item removed and the heap left.
get(heap) ==
    The({IF rest # <<>>
         THEN [item |-> rest[1], heap |-> SiftUp([rest EXCEPT ![1] = lastelt], 1)]
         ELSE [item |-> lastelt, heap |-> rest] :
            lastelt \in {heap[Len(heap)]},
            rest \in {SubSeq(heap, 1, Len(heap) - 1)}})

-----------------------------------------------------------------------------
(* Exact geometry, in units and square units: the yardstick of the claims *)

ExactArea(b) == (b.x.max - b.x.min) * (b.y.max - b.y.min)

Inside(b, c) ==
    /\ c.x.min <= b.x.min /\ b.x.max <= c.x.max
    /\ c.y.min <= b.y.min /\ b.y.max <= c.y.max

\* The closed boxes share a point.
Meet(b, c) ==
    /\ Max2(b.x.min, c.x.min) <= Min2(b.x.max, c.x.max)
    /\ Max2(b.y.min, c.y.min) <= Min2(b.y.max, c.y.max)

\* The open boxes share a point.
InteriorsMeet(b, c) ==
    /\ Max2(b.x.min, c.x.min) < Min2(b.x.max, c.x.max)
    /\ Max2(b.y.min, c.y.min) < Min2(b.y.max, c.y.max)

\* Points are given by doubled coordinates, so that the midpoint of two
\* neighbouring grid lines is a point too.
PointIn(X, Y, b) ==
    /\ 2 * b.x.min <= X /\ X <= 2 * b.x.max
    /\ 2 * b.y.min <= Y /\ Y <= 2 * b.y.max

\* One point on every line of `lines` inside [lo, hi] and one in every gap
\* between them: every point of [lo, hi] lies on the same side of every line
\* as one of these.
AxisSamples(lo, hi, lines) ==
    LET ls == {l \in lines \cup {lo, hi} : lo <= l /\ l <= hi}
    IN  {2 * l : l \in ls} \cup {2 * l + 1 : l \in {k \in ls : k < hi}}

-----------------------------------------------------------------------------
\* Operands and result of one operation of the interval and box layers.
VARIABLES opA, opB, op, res

\* probability_nonnegative: its arguments, its locals, the objects it holds.
VARIABLES
    g,               \* the real function: the cells on which it is >= 0
    slack,           \* f is exact on boxes no wider than this, vague on others
    domain,          \* argument: the domain box
    iterations,      \* argument: the iteration budget
    objects,         \* the Box2D objects created so far, by reference
    nonnegative_on,  \* list of references
    worklist,        \* heap list of PrioritizedItem, item a reference
    i,               \* number of loop iterations begun
    box,             \* local: reference of the box last dequeued (0: none)
    f_on_box,        \* local: f(box)
    calls,           \* number of evaluations of f
    pc,              \* "loop", "bounds" (line 92) or "done"
    result           \* the interval returned

avars == <<opA, opB, op, res>>
svars == <<g, slack, domain, iterations, objects, nonnegative_on, worklist, i,
           box, f_on_box, calls, pc, result>>
vars == <<avars, svars>>

\* The search is not running.
SearchIdle ==
    /\ g = {} /\ slack = 0 /\ domain = AssertionError /\ iterations = 0
    /\ objects = <<>> /\ nonnegative_on = <<>> /\ worklist = <<>> /\ i = 0
    /\ box = 0 /\ f_on_box = AssertionError /\ calls = 0 /\ pc = "idle"
    /\ result = AssertionError

ArithIdle ==
    /\ opA = AssertionError /\ opB = AssertionError /\ op = "idle"
    /\ res = AssertionError

\* Operand endpoints: zero, subnormals, and normal floats around 1.0.
Operands ==
    LET mags == {0, 1, 3, One \div 2, 7 * (One \div 8), One, 3 * (One \div 2)}
    IN  mags \cup {-m : m \in mags}

OperandIntervals ==
    {Interval(lo, hi) : <<lo, hi>> \in {p \in Operands \X Operands : p[1] <= p[2]}}

ArithInit ==
    /\ opA \in OperandIntervals
    /\ opB \in OperandIntervals
    /\ op = "none"
    /\ res = AssertionError
    /\ SearchIdle

DoAdd == op = "none" /\ op' = "add" /\ res' = Interval_add(opA, opB)
         /\ UNCHANGED <<opA, opB, svars>>
DoSub == op = "none" /\ op' = "sub" /\ res' = Interval_sub(opA, opB)
         /\ UNCHANGED <<opA, opB, svars>>
DoMul == op = "none" /\ op' = "mul" /\ res' = Interval_mul(opA, opB)
         /\ UNCHANGED <<opA, opB, svars>>

ArithNext == DoAdd \/ DoSub \/ DoMul

SpecArith == ArithInit /\ [][ArithNext]_vars

\* Exact real value of a op b, as a fraction num/One of the unit, for scalars
\* a, b given in units: the numerator.
ExactTimesOne(kind, a, b) ==
    CASE kind = "add" -> (a + b) * One
      [] kind = "sub" -> (a - b) * One
      [] kind = "mul" -> a * b

\* C8: for all intervals A, B and scalars a in A, b in B, the exact a+b, a-b
\* and a*b lie in A+B, A-B and A*B, and each result is an interval with
\* min <= max.  (The scalars range over the grid of the smallest subnormal,
\* which holds the endpoints, where the bilinear extremes are attained.)
ArithmeticEnclosure ==
    op # "none" =>
        /\ IsInterval(res)
        /\ \A a \in opA.min .. opA.max : \A b \in opB.min .. opB.max :
              /\ res.min * One <= ExactTimesOne(op, a, b)
              /\ ExactTimesOne(op, a, b) <= res.max * One

\* The part of C8 that the code does satisfy: addition and subtraction, and
\* multiplication whose four endpoint products are zero or of normal size.
NoUnderflow ==
    \A a \in {opA.min, opA.max} : \A b \in {opB.min, opB.max} :
        a * b = 0 \/ Abs(a * b) >= Pow2(Precision - 1) * One

EnclosureWithoutUnderflow ==
    (op \in {"add", "sub"} \/ (op = "mul" /\ NoUnderflow)) =>
        /\ IsInterval(res)
        /\ \A a \in opA.min .. opA.max : \A b \in opB.min .. opB.max :
              /\ res.min * One <= ExactTimesOne(op, a, b)
              /\ ExactTimesOne(op, a, b) <= res.max * One
-----------------------------------------------------------------------------
(* Box2D.split and Box2D.area on the box opA x opB *)

DoSplit == op = "none" /\ op' = "split" /\ res' = Box2D_split(Box2D(opA, opB))
           /\ UNCHANGED <<opA, opB, svars>>

BoxNext == DoSplit

SpecBox == ArithInit /\ [][BoxNext]_vars

RECURSIVE SumAreas(_, _, _)
\* sum((b.area() for b in boxes), start=acc), from position k on.
SumAreas(acc, boxes, k) ==
    The({IF k > Len(boxes) THEN a
         ELSE SumAreas(Interval_add(a, area(boxes[k])), boxes, k + 1) : a \in {acc}})

RECURSIVE SumExact(_, _)
SumExact(boxes, k) ==
    IF k > Len(boxes) THEN 0 ELSE ExactArea(boxes[k]) + SumExact(boxes, k + 1)

\* The geometric content of C7: four sub-boxes, whose union is the parent,
\* whose interiors do not overlap, and whose exact areas add up to the
\* parent's.
SplitGeometry ==
    op = "split" =>
        LET parent == Box2D(opA, opB)
            xl == {res[k].x.min : k \in 1..4} \cup {res[k].x.max : k \in 1..4}
            yl == {res[k].y.min : k \in 1..4} \cup {res[k].y.max : k \in 1..4}
        IN  /\ Len(res) = 4
            /\ \A k \in 1..4 : IsInterval(res[k].x) /\ IsInterval(res[k].y)
                                /\ Inside(res[k], parent)
            /\ \A X \in AxisSamples(opA.min, opA.max, xl) :
               \A Y \in AxisSamples(opB.min, opB.max, yl) :
                  \E k \in 1..4 : PointIn(X, Y, res[k])
            /\ \A j, k \in 1..4 : j # k => ~InteriorsMeet(res[j], res[k])
            /\ SumExact(res, 1) = ExactArea(parent)

\* C7: Box2D.split returns exactly four sub-boxes whose union is the parent
\* box, whose interiors do not overlap, and whose areas sum to the parent's
\* area: the sum of the four area() intervals holds the parent's exact area.
AreaConservation ==
    op = "split" =>
        /\ SplitGeometry
        /\ LET total == SumAreas(singleton(0), res, 1)
               parent == ExactArea(Box2D(opA, opB))
           IN  total.min * One <= parent /\ parent <= total.max * One
-----------------------------------------------------------------------------
(* The caller's function: a real function and an interval extension of it *)

\* The real function is 0 on the closed cells of g and -1.0 everywhere else;
\* the cells quarter the square [0, 1.0] x [0, 1.0].
CellSize == One \div 2
Cells == {0, 1} \X {0, 1}
CellLines == {0, CellSize, One}

GNonneg(X, Y) ==
    \E c \in g : /\ 2 * c[1] * CellSize <= X /\ X <= 2 * (c[1] + 1) * CellSize
                 /\ 2 * c[2] * CellSize <= Y /\ Y <= 2 * (c[2] + 1) * CellSize

HasNonneg(b) ==
    \E X \in AxisSamples(b.x.min, b.x.max, CellLines) :
    \E Y \in AxisSamples(b.y.min, b.y.max, CellLines) : GNonneg(X, Y)

HasNeg(b) ==
    \E X \in AxisSamples(b.x.min, b.x.max, CellLines) :
    \E Y \in AxisSamples(b.y.min, b.y.max, CellLines) : ~GNonneg(X, Y)

\* The range of the real function over the box.
Hull(b) ==
    Interval(IF HasNeg(b) THEN -One ELSE 0, IF HasNonneg(b) THEN 0 ELSE -One)

Width(b) == Max2(b.x.max - b.x.min, b.y.max - b.y.min)

\* A rigorous interval extension: the exact range on boxes no wider than
\* slack, and an interval that holds every value of the function on the others.
f(b) == IF Width(b) > slack THEN Interval(-One, One) ELSE Hull(b)

-----------------------------------------------------------------------------
(* probability_nonnegative *)

\* The unit interval, its upper half, a point, and an interval one float
\* spacing wide (its midpoint is not a float).
DomainIntervals ==
    {Interval(0, One), Interval(CellSize, One), Interval(0, 0),
     Interval(7 * (One \div 8), One)}

SlackValues == {0, CellSize, One}

Init ==
    /\ ArithIdle
    /\ g \in SUBSET Cells
    /\ slack \in SlackValues
    /\ domain \in {Box2D(x, y) : x \in DomainIntervals, y \in DomainIntervals}
    /\ iterations \in 0 .. MaxIter
    /\ objects = <<domain>>
    /\ nonnegative_on = <<>>
    /\ worklist = put(<<>>, PrioritizedItem(Priority(domain), 1))
    /\ i = 0
    /\ box = 0
    /\ f_on_box = AssertionError
    /\ calls = 0
    /\ pc = "loop"
    /\ result = AssertionError

\* A plausible slip: the loop runs once more than the budget.
LoopContinuesOneTooMany == i <= iterations

\* Line 78: range(iterations) has another element.
LoopContinues == i < iterations

\* A plausible slip: the wrong predicate sends a box to nonnegative_on.
ResolvedIfCanBeNonnegative(r) == can_be_nonnegative(r)

\* Line 85: the box goes to nonnegative_on.
Resolved(r) == ~can_be_negative(r)

\* Plausible slips: half of the condition of line 88 is left out.
AmbiguousIfCanBeNonnegative(r) == can_be_nonnegative(r)
AmbiguousIfCanBeNegative(r) == can_be_negative(r)

\* Line 88: the box is quartered.
Ambiguous(r) == can_be_negative(r) /\ can_be_nonnegative(r)

RECURSIVE PutQuarters(_, _, _, _)
\* Lines 89-90: the quarters, stored at references base+1 .. base+4, are put
\* on the worklist in the order split() returns them.
PutQuarters(heap, quarters, base, k) ==
    The({IF k > Len(quarters) THEN h
         ELSE PutQuarters(put(h, PrioritizedItem(Priority(quarters[k]), base + k)),
                          quarters, base, k + 1) : h \in {heap}})

\* Lines 79-90: one iteration of the loop.
Iterate ==
    /\ pc = "loop" /\ LoopContinues /\ worklist # <<>>
    /\ \E got \in {get(worklist)} :
       LET b == got.item.item IN
       \E r \in {f(objects[b])} : \E quarters \in {Box2D_split(objects[b])} :
           /\ box' = b
           /\ f_on_box' = r
           /\ nonnegative_on' =
                 IF Resolved(r) THEN Append(nonnegative_on, b) ELSE nonnegative_on
           /\ IF Ambiguous(r)
              THEN /\ objects' = objects \o quarters
                   /\ worklist' = PutQuarters(got.heap, quarters, Len(objects), 1)
              ELSE /\ objects' = objects
                   /\ worklist' = got.heap
    /\ i' = i + 1
    /\ calls' = calls + 1
    /\ UNCHANGED <<g, slack, domain, iterations, pc, result, avars>>

\* Lines 79-80: the worklist is empty.
Break ==
    /\ pc = "loop" /\ LoopContinues /\ worklist = <<>>
    /\ pc' = "bounds"
    /\ UNCHANGED <<g, slack, domain, iterations, objects, nonnegative_on,
                   worklist, i, box, f_on_box, calls, result, avars>>

\* Line 78: the budget is used up.
Exhaust ==
    /\ pc = "loop" /\ ~LoopContinues
    /\ pc' = "bounds"
    /\ UNCHANGED <<g, slack, domain, iterations, objects, nonnegative_on,
                   worklist, i, box, f_on_box, calls, result, avars>>

RECURSIVE SumBoxAreas(_, _, _, _)
\* sum((area of the box refs[k] names), start=acc), in list order.
SumBoxAreas(acc, objs, refs, k) ==
    The({IF k > Len(refs) THEN a
         ELSE SumBoxAreas(Interval_add(a, area(objs[refs[k]])), objs, refs, k + 1) :
            a \in {acc}})

\* Lines 92-96 on the collections as they stand: what the function returns
\* when the loop ends here.
Bounds(objs, resolved, heap) ==
    The({LET queue == [k \in 1 .. Len(heap) |-> heap[k].item]
             upper_bound ==
                Interval_add(lower_bound, SumBoxAreas(singleton(0), objs, queue, 1))
         IN  wrap(lower_bound, upper_bound) :
            lower_bound \in {SumBoxAreas(singleton(0), objs, resolved, 1)}})

Return ==
    /\ pc = "bounds"
    /\ result' = Bounds(objects, nonnegative_on, worklist)
    /\ pc' = "done"
    /\ UNCHANGED <<g, slack, domain, iterations, objects, nonnegative_on,
                   worklist, i, box, f_on_box, calls, avars>>

Next == Iterate \/ Break \/ Exhaust \/ Return

Spec == Init /\ [][Next]_vars

\* The loop has no suspension point: a step that can be taken is taken.
FairSpec == Spec /\ WF_vars(Next)

-----------------------------------------------------------------------------
(* Yardsticks of the search claims *)

Range(s) == {s[k] : k \in 1 .. Len(s)}
QueueRefs == {worklist[k].item : k \in 1 .. Len(worklist)}
HeldRefs == Range(nonnegative_on) \cup QueueRefs

Overlap(iv, k) ==
    Max2(0, Min2(iv.max, (k + 1) * CellSize) - Max2(iv.min, k * CellSize))

CellPart(c) ==
    IF c \in g THEN Overlap(domain.x, c[1]) * Overlap(domain.y, c[2]) ELSE 0

\* Exact area of the part of the domain on which the real function is >= 0.
NonnegMeasure ==
    CellPart(<<0, 0>>) + CellPart(<<0, 1>>) + CellPart(<<1, 0>>) + CellPart(<<1, 1>>)

RECURSIVE SumRefAreas(_, _)
\* Total exact area of the boxes the references of S name.
SumRefAreas(objs, S) ==
    IF S = {} THEN 0
    ELSE LET r == CHOOSE y \in S : TRUE
         IN  ExactArea(objs[r]) + SumRefAreas(objs, S \ {r})

ExactResolved == SumRefAreas(objects, Range(nonnegative_on))
ExactPending == SumRefAreas(objects, QueueRefs)
ExactHeld == SumRefAreas(objects, HeldRefs)

\* The area estimate by which the claims order boxes.
Estimate(b) == round(area(b))

-----------------------------------------------------------------------------
(* Claims about probability_nonnegative *)

\* C1: the interval returned contains the true probability that the real
\* function is non-negative on the domain, i.e. the fraction of the domain's
\* area on which it is >= 0 (domains of positive area).
ProbabilityEnclosed ==
    (pc = "done" /\ ExactArea(domain) > 0) =>
        /\ result.min * ExactArea(domain) <= NonnegMeasure * One
        /\ NonnegMeasure * One <= result.max * ExactArea(domain)

\* What the code does return: an enclosure of the area (not the fraction) of
\* the part of the domain on which the real function is >= 0.
AreaEnclosed ==
    pc = "done" =>
        result.min * One <= NonnegMeasure /\ NonnegMeasure <= result.max * One

\* C2: every point of the domain at which the real function is non-negative
\* lies in a box of nonnegative_on or of the worklist, and the function is
\* non-negative on every box of nonnegative_on.
CoverageInvariant ==
    LET held == {objects[r] : r \in HeldRefs}
        xl == CellLines \cup {b.x.min : b \in held} \cup {b.x.max : b \in held}
        yl == CellLines \cup {b.y.min : b \in held} \cup {b.y.max : b \in held}
    IN  /\ \A X \in AxisSamples(domain.x.min, domain.x.max, xl) :
           \A Y \in AxisSamples(domain.y.min, domain.y.max, yl) :
              GNonneg(X, Y) => \E b \in held : PointIn(X, Y, b)
        /\ \A r \in Range(nonnegative_on) : ~HasNeg(objects[r])

CoverageWitness ==
    /\ pc = "done" /\ nonnegative_on # <<>> /\ worklist # <<>>
    /\ \E r \in 1 .. Len(objects) : r \notin HeldRefs /\ f(objects[r]).max < 0
    /\ 0 < NonnegMeasure /\ NonnegMeasure < ExactArea(domain)

\* Every box object is held at most once, by one collection.
ExclusiveOwnership ==
    /\ Range(nonnegative_on) \cap QueueRefs = {}
    /\ Len(nonnegative_on) = Cardinality(Range(nonnegative_on))
    /\ Len(worklist) = Cardinality(QueueRefs)

MonotonicTightening ==
    [][i' = i + 1 =>
          LET before == Bounds(objects, nonnegative_on, worklist)
              after == Bounds(objects', nonnegative_on', worklist')
          IN  after.min >= before.min /\ after.max <= before.max]_vars

\* C4 as amended: from one loop iteration to the next the exact area of the
\* boxes of nonnegative_on never decreases, and the exact area of the boxes
\* of nonnegative_on and of the worklist together never increases.
ExactTightening ==
    [][i' = i + 1 =>
          /\ SumRefAreas(objects', Range(nonnegative_on')) >= ExactResolved
          /\ SumRefAreas(objects', Range(nonnegative_on') \cup
                                   {worklist'[k].item : k \in 1 .. Len(worklist')})
                <= ExactHeld]_vars

ExactTighteningWitness ==
    /\ i >= 3
    /\ 0 < ExactResolved
    /\ 0 < ExactPending
    /\ ExactHeld < ExactArea(domain)

\* C5: the loop halts: f is evaluated at most `iterations` times, is not
\* evaluated once the worklist is empty, and the function reaches the bound
\* computation and returns.
Halts ==
    /\ [](calls <= iterations)
    /\ [][worklist = <<>> => calls' = calls]_vars
    /\ <>(pc = "done" /\ IsInterval(result))

HaltsWitness ==
    /\ pc = "done" /\ iterations >= 3 /\ calls = iterations
    /\ Len(worklist) >= 4
    /\ \A k \in 1 .. Len(worklist) : Ambiguous(f(objects[worklist[k].item]))

\* C6 as stated: if f is negative on the whole domain, the function returns
\* [0, 0] and no box is ever added to nonnegative_on.
AllNegativeZero ==
    (pc = "done" /\ f(domain).max < 0) =>
        result = Interval(0, 0) /\ nonnegative_on = <<>>

\* C6 as amended: if f is negative on the whole domain and the budget is at
\* least 1, the function returns [0, 0], no box is ever added to
\* nonnegative_on and none is left on the worklist.
AllNegativeZeroAfterOneIteration ==
    /\ f(domain).max < 0 => nonnegative_on = <<>>
    /\ (pc = "done" /\ f(domain).max < 0 /\ iterations >= 1) =>
          result = Interval(0, 0) /\ worklist = <<>>

AllNegativeWitness ==
    /\ pc = "done" /\ f(domain).max < 0 /\ iterations >= 1
    /\ ExactArea(domain) > 0 /\ calls = 1 /\ box = 1

\* C9: the box removed from the worklist has an area estimate at least that
\* of every box of the worklist.
BestFirst ==
    [][i' = i + 1 =>
          /\ box' \in QueueRefs
          /\ \A q \in QueueRefs :
                Estimate(objects[q]) <= Estimate(objects[box'])]_vars

BestFirstWitness ==
    /\ box # 0 /\ i >= 3
    /\ \E q \in QueueRefs : Estimate(objects[q]) < Estimate(objects[box])
    /\ \E q \in QueueRefs : Estimate(objects[q]) = Estimate(objects[box])

\* C10: an iteration removes one box from the worklist and does one of three
\* things according to f(box): appends it to nonnegative_on and enqueues
\* nothing; enqueues exactly its four quarters and leaves nonnegative_on
\* unchanged; or drops it.  A box once in nonnegative_on is never removed or
\* re-enqueued.
ClassificationStep ==
    [][/\ i' = i + 1 =>
            LET b == box'
                r == f_on_box'
                others == QueueRefs \ {b}
                fresh == Len(objects) + 1 .. Len(objects) + 4
            IN  /\ b \in QueueRefs
                /\ r = f(objects[b])
                /\ SubSeq(objects', 1, Len(objects)) = objects
                /\ Len(worklist') = Cardinality(QueueRefs')
                /\ r.min >= 0 =>
                      /\ nonnegative_on' = Append(nonnegative_on, b)
                      /\ QueueRefs' = others
                /\ (r.min < 0 /\ r.max >= 0) =>
                      /\ nonnegative_on' = nonnegative_on
                      /\ QueueRefs' = others \cup fresh
                      /\ [k \in 1 .. 4 |-> objects'[Len(objects) + k]]
                            = Box2D_split(objects[b])
                /\ r.max < 0 =>
                      /\ nonnegative_on' = nonnegative_on
                      /\ QueueRefs' = others
       /\ Len(nonnegative_on') >= Len(nonnegative_on)
       /\ SubSeq(nonnegative_on', 1, Len(nonnegative_on)) = nonnegative_on
       /\ Range(nonnegative_on) \cap QueueRefs' = {}]_vars

ClassificationWitness ==
    /\ nonnegative_on # <<>>
    /\ Len(objects) > 1
    /\ \E r \in 1 .. Len(objects) : r \notin HeldRefs /\ f(objects[r]).max < 0
====
